---- MODULE Spec2Model ----
(***************************************************************************)
(* Model of rc-manager.py: the section validator (test_file_integrity),    *)
(* the single-section extractor (get_section_content) and the assembling   *)
(* loop of main.                                                           *)
(*                                                                         *)
(* A Python str is a sequence of one-character strings; a line is a str    *)
(* that carries its trailing "\n" (file.readlines()).  Python's None is    *)
(* the empty tuple and a present value v is <<v>>, so that None and the    *)
(* empty str stay different values.                                        *)
(***************************************************************************)
EXTENDS Integers, Sequences, FiniteSets, TLC

\* ------------------------------------------------------------------ bounds
\* longest input file, in lines
MaxLines == 4
\* longest list of requested sections
MaxReq == 2

\* ------------------------------------------------------------ Python values
None == <<>>
Some(v) == <<v>>
\* truth value of an Optional[str]: None and '' are falsy
Truthy(o) == o # None /\ o[1] # <<>>

NL == "\n"
Whitespace == {" ", "\n", "\t", "\r"}

\* s[a:] for 0 <= a
SliceFrom(s, a) == SubSeq(s, a + 1, Len(s))

\* s[a:-b] for a, b >= 0; Python reads -0 as 0, so s[a:-0] is empty
SliceBetween(s, a, b) ==
    IF b = 0 THEN <<>> ELSE SubSeq(s, a + 1, Len(s) - b)

\* s.startswith(p)
StartsWith(s, p) == Len(p) <= Len(s) /\ SubSeq(s, 1, Len(p)) = p

RECURSIVE LStrip(_)
LStrip(s) ==
    IF s # <<>> /\ Head(s) \in Whitespace THEN LStrip(Tail(s)) ELSE s

RECURSIVE RStrip(_)
RStrip(s) ==
    IF s # <<>> /\ s[Len(s)] \in Whitespace
    THEN RStrip(SubSeq(s, 1, Len(s) - 1))
    ELSE s

\* str.strip()
Strip(s) == RStrip(LStrip(s))

\* ''.join(parts)
RECURSIVE Join(_)
Join(parts) ==
    IF parts = <<>> THEN <<>> ELSE Head(parts) \o Join(Tail(parts))

\* str.split(sep) for a non-empty separator: always at least one piece
RECURSIVE SplitFrom(_, _, _)
SplitFrom(s, sep, cur) ==
    IF s = <<>> THEN <<cur>>
    ELSE IF StartsWith(s, sep)
         THEN <<cur>> \o SplitFrom(SliceFrom(s, Len(sep)), sep, <<>>)
         ELSE SplitFrom(Tail(s), sep, Append(cur, Head(s)))

Split(s, sep) == SplitFrom(s, sep, <<>>)

\* --------------------------------------------------------- SectionPatterns
DefaultBeginPrefix == <<"#", "#", "#", " ", "[", "B", "E", "G", "I", "N", " ">>
DefaultBeginSuffix == <<"]", "\n">>
DefaultEndPrefix == <<"#", "#", "#", " ", "[", "E", "N", "D", " ">>
DefaultEndSuffix == <<"]", "\n">>

\* SectionPatterns() after __init__: the four defaults
SectionPatterns ==
    [begin_prefix |-> DefaultBeginPrefix,
     begin_suffix |-> DefaultBeginSuffix,
     end_prefix   |-> DefaultEndPrefix,
     end_suffix   |-> DefaultEndSuffix]

\* variant: '.' in place of '.+', a name of exactly one character
RegexMatchOneChar(prefix, suffix, line) ==
    /\ StartsWith(line, prefix)
    /\ Len(line) >= Len(prefix) + 1 + Len(suffix)
    /\ line[Len(prefix) + 1] # NL
    /\ SubSeq(line, Len(prefix) + 2, Len(prefix) + 1 + Len(suffix)) = suffix

\* re.compile(escape(prefix) + '.+' + escape(suffix)).match(line):
\* anchored at the start of the line only; '.' is any character but "\n"
RegexMatch(prefix, suffix, line) ==
    /\ StartsWith(line, prefix)
    /\ \E k \in 1..(Len(line) - Len(prefix) - Len(suffix)) :
          /\ \A j \in 1..k : line[Len(prefix) + j] # NL
          /\ SubSeq(line, Len(prefix) + k + 1,
                    Len(prefix) + k + Len(suffix)) = suffix

generic_begin_match(sp, line) == RegexMatch(sp.begin_prefix, sp.begin_suffix, line)
generic_end_match(sp, line) == RegexMatch(sp.end_prefix, sp.end_suffix, line)

\* f'{sp.begin_prefix}{section}{sp.begin_suffix}'
BeginMarker(sp, section) == sp.begin_prefix \o section \o sp.begin_suffix
\* f'{sp.end_prefix}{section}{sp.end_suffix}'
EndMarker(sp, section) == sp.end_prefix \o section \o sp.end_suffix

\* line[len(sp.begin_prefix):-len(sp.begin_suffix)]
BeginName(sp, line) == SliceBetween(line, Len(sp.begin_prefix), Len(sp.begin_suffix))

\* ---------------------------------------------------- get_section_content
\* variant: the begin-marker is matched by startswith(prefix + name)
RECURSIVE FindBeginByPrefix(_, _, _, _)
FindBeginByPrefix(section, lines, sp, cur_line) ==
    IF cur_line >= Len(lines) THEN -1
    ELSE IF StartsWith(lines[cur_line + 1], sp.begin_prefix \o section)
         THEN cur_line
         ELSE FindBeginByPrefix(section, lines, sp, cur_line + 1)

\* first for-loop (lines 122-128): the 0-based index of the first line equal
\* to the section's begin-marker, or -1 when the loop runs to its else
RECURSIVE FindBegin(_, _, _, _)
FindBegin(section, lines, sp, cur_line) ==
    IF cur_line >= Len(lines) THEN -1
    ELSE IF lines[cur_line + 1] = BeginMarker(sp, section) THEN cur_line
         ELSE FindBegin(section, lines, sp, cur_line + 1)

\* variant: the loop breaks on any end-marker, whatever its name
RECURSIVE CollectToAnyEnd(_, _, _, _, _)
CollectToAnyEnd(section, lines, sp, cur_line, section_content) ==
    IF cur_line >= Len(lines)
    THEN [found |-> FALSE, section_content |-> section_content]
    ELSE LET line == lines[cur_line + 1]
             acc == Append(section_content, line)
         IN  IF generic_end_match(sp, line)
             THEN [found |-> TRUE, section_content |-> acc]
             ELSE CollectToAnyEnd(section, lines, sp, cur_line + 1, acc)

\* second for-loop (lines 131-136) over lines[cur_line:]: every line is
\* appended, the loop breaks on the section's end-marker
RECURSIVE CollectToEnd(_, _, _, _, _)
CollectToEnd(section, lines, sp, cur_line, section_content) ==
    IF cur_line >= Len(lines)
    THEN [found |-> FALSE, section_content |-> section_content]
    ELSE LET line == lines[cur_line + 1]
             acc == Append(section_content, line)
         IN  IF line = EndMarker(sp, section)
             THEN [found |-> TRUE, section_content |-> acc]
             ELSE CollectToEnd(section, lines, sp, cur_line + 1, acc)

\* len(list(filter(lambda s: s.strip(), section_content)))
NonBlankCount(section_content) ==
    Cardinality({k \in 1..Len(section_content) : Strip(section_content[k]) # <<>>})

\* variant: the section counts as empty when it holds two lines
IsEmptySectionByLength(section_content) == Len(section_content) = 2

\* the guard of line 138
IsEmptySection(section_content) == NonBlankCount(section_content) = 2

\* get_section_content(section, lines, sp): raised is the exception class
\* ("" for a normal return), begin the 0-based index of the begin-marker
get_section_content(section, lines, sp) ==
    LET b == FindBegin(section, lines, sp, 0)
    IN  IF b < 0
        THEN [raised |-> "SectionNotFound", section_content |-> <<>>, begin |-> b]
        ELSE LET r == CollectToEnd(section, lines, sp, b + 1, <<lines[b + 1]>>)
             IN  IF ~r.found
                 THEN [raised |-> "SectionEndlessFound",
                       section_content |-> r.section_content, begin |-> b]
                 ELSE IF IsEmptySection(r.section_content)
                 THEN [raised |-> "SectionEmptyFound",
                       section_content |-> r.section_content, begin |-> b]
                 ELSE [raised |-> "", section_content |-> r.section_content,
                       begin |-> b]

\* ------------------------------------------------------------------ inputs
\* section names used in the input files and in the requests; the second
\* has the first as a proper prefix
SectionNames == {<<"a">>, <<"a", "b">>}

\* the lines an input file is made of: the begin- and end-markers of the
\* names, a body line and a blank line
LineSet ==
    {BeginMarker(SectionPatterns, n) : n \in SectionNames}
    \cup {EndMarker(SectionPatterns, n) : n \in SectionNames}
    \cup {<<"x", "\n">>, <<"\n">>}

SeqsUpTo(S, n) == UNION {[1..k -> S] : k \in 0..n}

\* default of --section_separator_in_command_line
default_section_sep_in_cmd_line == <<" ">>

\* sep.join(parts)
RECURSIVE JoinWith(_, _)
JoinWith(parts, sep) ==
    IF parts = <<>> THEN <<>>
    ELSE IF Len(parts) = 1 THEN parts[1]
    ELSE parts[1] \o sep \o JoinWith(Tail(parts), sep)

\* values of --sections: one to MaxReq names joined by the separator
SectionsArgs ==
    {JoinWith(r, default_section_sep_in_cmd_line) :
        r \in SeqsUpTo(SectionNames, MaxReq) \ {<<>>}}

\* ------------------------------------------------------------------- state
VARIABLES
    pc,                        \* position in main / test_file_integrity
    lines,                     \* f.readlines()
    args_test,                 \* args.test_file_integrity
    args_sections,             \* args.sections
    i,                         \* enumerate index of test_file_integrity
    section,                   \* the open section (Optional[str])
    section_line,
    nested_session,
    nested_section_line,
    sections_found,
    sections_without_opening,
    closed_ranges,             \* history: <<name, begin line, end line>> per line 85
    sections,                  \* args.sections.split(separator)
    idx,                       \* sections consumed by the loop of line 232
    current_line,
    file_content_as_list,
    last_call,                 \* history: the latest get_section_content call
    stdout,                    \* one entry per write to sys.stdout
    stderr,                    \* one entry per print(..., file=sys.stderr)
    ret,                       \* test_file_integrity's return value
    exit_code                  \* -1 while the process runs

vars == <<pc, lines, args_test, args_sections, i, section, section_line,
          nested_session, nested_section_line, sections_found,
          sections_without_opening, closed_ranges, sections, idx,
          current_line, file_content_as_list, last_call, stdout, stderr, ret,
          exit_code>>

testVars == <<i, section, section_line, nested_session, nested_section_line,
              sections_found, sections_without_opening, closed_ranges>>
extractVars == <<sections, idx, current_line, file_content_as_list, last_call>>
inputVars == <<lines, args_test, args_sections>>

\* print(text): the text and the newline print adds
Printed(text) == text \o <<NL>>

Init ==
    /\ pc = "main"
    /\ lines \in SeqsUpTo(LineSet, MaxLines)
    /\ args_test \in BOOLEAN
    /\ args_sections \in IF args_test THEN {<<>>} ELSE SectionsArgs
    /\ i = 0
    /\ section = None
    /\ section_line = None
    /\ nested_session = None
    /\ nested_section_line = None
    /\ sections_found = <<>>
    /\ sections_without_opening = <<>>
    /\ closed_ranges = <<>>
    /\ sections = <<>>
    /\ idx = 0
    /\ current_line = 0
    /\ file_content_as_list = <<>>
    /\ last_call = None
    /\ stdout = <<>>
    /\ stderr = <<>>
    /\ ret = "none"
    /\ exit_code = -1

\* ------------------------------------------------------------------- main
\* main, lines 221-222: -t was given, test_file_integrity is entered
MainTest ==
    /\ pc = "main"
    /\ args_test
    /\ pc' = IF Len(lines) = 0 THEN "test_report" ELSE "test_loop"
    /\ UNCHANGED <<inputVars, testVars, extractVars, stdout, stderr, ret, exit_code>>

\* main, lines 224-231: the request is split; an empty list ends the run
MainExtract ==
    /\ pc = "main"
    /\ ~args_test
    /\ sections' = Split(args_sections, default_section_sep_in_cmd_line)
    /\ IF Len(sections') = 0
       THEN /\ stderr' = Append(stderr, <<"No section selected. Please provide at least one section.">>)
            /\ exit_code' = 1
            /\ pc' = "done"
       ELSE /\ pc' = "extract_loop"
            /\ UNCHANGED <<stderr, exit_code>>
    /\ UNCHANGED <<inputVars, testVars, idx, current_line, file_content_as_list,
                   last_call, stdout, ret>>

\* ---------------------------------------------------- test_file_integrity
\* one iteration of the for-loop of lines 75-89, on line i + 1
IntegrityStep ==
    /\ pc = "test_loop"
    /\ i < Len(lines)
    /\ LET n == i + 1
           line == lines[n]
           sp == SectionPatterns
           ends == (n = Len(lines))
       IN  /\ i' = n
           /\ IF generic_begin_match(sp, line) /\ ~Truthy(section)
              THEN \* lines 76-79
                   /\ section' = Some(BeginName(sp, line))
                   /\ section_line' = Some(n)
                   /\ pc' = IF ends THEN "test_report" ELSE "test_loop"
                   /\ UNCHANGED <<nested_session, nested_section_line,
                                  sections_found, sections_without_opening,
                                  closed_ranges>>
              ELSE IF generic_begin_match(sp, line) /\ Truthy(section)
              THEN \* lines 80-83: break
                   /\ nested_session' = Some(BeginName(sp, line))
                   /\ nested_section_line' = Some(n)
                   /\ pc' = "test_report"
                   /\ UNCHANGED <<section, section_line, sections_found,
                                  sections_without_opening, closed_ranges>>
              ELSE IF Truthy(section) /\ line = EndMarker(sp, section[1])
              THEN \* lines 84-87
                   /\ sections_found' = Append(sections_found, section[1])
                   /\ closed_ranges' = Append(closed_ranges,
                                              <<section[1], section_line[1], n>>)
                   /\ section' = None
                   /\ pc' = IF ends THEN "test_report" ELSE "test_loop"
                   /\ UNCHANGED <<section_line, nested_session,
                                  nested_section_line, sections_without_opening>>
              ELSE IF ~Truthy(section) /\ generic_end_match(sp, line)
              THEN \* lines 88-89
                   /\ sections_without_opening' =
                          Append(sections_without_opening,
                                 SubSeq(line, 1, Len(line) - 1))
                   /\ pc' = IF ends THEN "test_report" ELSE "test_loop"
                   /\ UNCHANGED <<section, section_line, nested_session,
                                  nested_section_line, sections_found,
                                  closed_ranges>>
              ELSE /\ pc' = IF ends THEN "test_report" ELSE "test_loop"
                   /\ UNCHANGED <<section, section_line, nested_session,
                                  nested_section_line, sections_found,
                                  sections_without_opening, closed_ranges>>
    /\ UNCHANGED <<inputVars, extractVars, stdout, stderr, ret, exit_code>>

\* the print(f'{section}') loop of lines 107-108
PrintSections(names) == [k \in 1..Len(names) |-> Printed(names[k])]

\* the loop of lines 113-114 over sections_without_opening
PrintWithoutOpening(names) == [k \in 1..Len(names) |-> Printed(names[k])]

\* lines 91-116 and the exit of line 222
IntegrityReport ==
    /\ pc = "test_report"
    /\ pc' = "done"
    /\ IF Truthy(nested_session)
       THEN \* lines 91-96
            /\ stderr' = stderr \o
                  << <<"Nested section", nested_session[1], nested_section_line[1],
                       section, section_line>>,
                     <<"Nested sections are not supported. Please fix them.">>,
                     <<"Aborting">> >>
            /\ exit_code' = 1
            /\ UNCHANGED <<stdout, ret, section>>
       ELSE IF Truthy(section)
       THEN \* lines 98-100
            /\ stderr' = Append(stderr,
                  <<"Could not find end of section", section[1], section_line[1]>>)
            /\ ret' = "False"
            /\ exit_code' = 1
            /\ UNCHANGED <<stdout, section>>
       ELSE IF sections_found = <<>>
       THEN \* lines 102-104
            /\ stderr' = Append(stderr,
                  <<"No sections found. Please double check prefix and suffix.">>)
            /\ ret' = "False"
            /\ exit_code' = 1
            /\ UNCHANGED <<stdout, section>>
       ELSE \* lines 106-116; the two for-loops rebind section
            /\ stdout' = stdout \o PrintSections(sections_found)
                                \o PrintWithoutOpening(sections_without_opening)
            /\ stderr' = stderr \o <<<<"Sections found:">>>> \o
                  (IF sections_without_opening # <<>>
                   THEN << <<"">>, <<"Sections without opening:">> >>
                   ELSE <<>>)
            /\ section' = IF sections_without_opening # <<>>
                          THEN Some(sections_without_opening[Len(sections_without_opening)])
                          ELSE Some(sections_found[Len(sections_found)])
            /\ ret' = IF sections_without_opening # <<>> THEN "False" ELSE "True"
            /\ exit_code' = IF sections_without_opening # <<>> THEN 1 ELSE 0
    /\ UNCHANGED <<inputVars, i, section_line, nested_session, nested_section_line,
                   sections_found, sections_without_opening, closed_ranges,
                   extractVars>>

\* ------------------------------------------------------------ main, extract
\* the message of the except clauses of lines 240-248
ResolutionMessage(raised) ==
    IF raised = "SectionNotFound" THEN "Section not found"
    ELSE IF raised = "SectionEndlessFound" THEN "Could not find end of section"
    ELSE "Section is empty"

\* one iteration of the loop of lines 232-251
ExtractStep ==
    /\ pc = "extract_loop"
    /\ idx < Len(sections)
    /\ LET name == sections[idx + 1]
           r == get_section_content(name, lines, SectionPatterns)
       IN  /\ current_line' = current_line + Len(file_content_as_list) - idx
           /\ last_call' = Some([section |-> name, result |-> r])
           /\ IF r.raised # ""
              THEN /\ stderr' = Append(stderr, <<ResolutionMessage(r.raised), name>>)
                   /\ exit_code' = 1
                   /\ pc' = "done"
                   /\ UNCHANGED <<idx, file_content_as_list>>
              ELSE /\ file_content_as_list' =
                          (file_content_as_list \o r.section_content) \o <<<<NL>>>>
                   /\ idx' = idx + 1
                   /\ pc' = IF idx + 1 = Len(sections) THEN "write" ELSE "extract_loop"
                   /\ UNCHANGED <<stderr, exit_code>>
    /\ UNCHANGED <<inputVars, testVars, sections, stdout, ret>>

\* variant: the trailing "\n" is kept
PopNothing(list) == list

\* file_content_as_list.pop() of line 253
PopLast(list) == SubSeq(list, 1, Len(list) - 1)

\* lines 253-257, then the exit(0) of line 262
WriteOutput ==
    /\ pc = "write"
    /\ file_content_as_list' = PopLast(file_content_as_list)
    /\ stdout' = Append(stdout, Join(file_content_as_list'))
    /\ exit_code' = 0
    /\ pc' = "done"
    /\ UNCHANGED <<inputVars, testVars, sections, idx, current_line, last_call,
                   stderr, ret>>

Next ==
    \/ MainTest
    \/ MainExtract
    \/ IntegrityStep
    \/ IntegrityReport
    \/ ExtractStep
    \/ WriteOutput

Spec == Init /\ [][Next]_vars

\* ============================================================== properties
\* Vocabulary of the claims, stated on the input alone.

\* s.endswith(p)
EndsWith(s, p) == Len(p) <= Len(s) /\ SubSeq(s, Len(s) - Len(p) + 1, Len(s)) = p

\* a whole line of the form prefix + <non-empty name> + suffix
IsMarkerLine(prefix, suffix, line) ==
    /\ Len(line) > Len(prefix) + Len(suffix)
    /\ StartsWith(line, prefix)
    /\ EndsWith(line, suffix)

MarkerName(prefix, suffix, line) ==
    SubSeq(line, Len(prefix) + 1, Len(line) - Len(suffix))

IsBeginLine(line) == IsMarkerLine(DefaultBeginPrefix, DefaultBeginSuffix, line)
IsEndLine(line) == IsMarkerLine(DefaultEndPrefix, DefaultEndSuffix, line)
BeginLineName(line) == MarkerName(DefaultBeginPrefix, DefaultBeginSuffix, line)
EndLineName(line) == MarkerName(DefaultEndPrefix, DefaultEndSuffix, line)

Begins(ls) == {k \in 1..Len(ls) : IsBeginLine(ls[k])}
Ends(ls) == {k \in 1..Len(ls) : IsEndLine(ls[k])}

Min(S) == CHOOSE m \in S : \A n \in S : m <= n

\* 1-based index of the first line equal to the begin-marker of name, or 0
FirstBeginOf(ls, name) ==
    LET S == {k \in 1..Len(ls) :
                 ls[k] = DefaultBeginPrefix \o name \o DefaultBeginSuffix}
    IN  IF S = {} THEN 0 ELSE Min(S)

\* 1-based index of the first line after b equal to the end-marker of name, or 0
FirstEndAfter(ls, name, b) ==
    LET S == {k \in (b + 1)..Len(ls) :
                 ls[k] = DefaultEndPrefix \o name \o DefaultEndSuffix}
    IN  IF S = {} THEN 0 ELSE Min(S)

\* the line closing the section that the begin-marker at line b opens, or 0
CloseOf(ls, b) == FirstEndAfter(ls, BeginLineName(ls[b]), b)

\* a begin-marker occurs while an earlier section is still open
HasNesting(ls) ==
    \E b1 \in Begins(ls) : \E b2 \in Begins(ls) :
        /\ b1 < b2
        /\ FirstEndAfter(ls, BeginLineName(ls[b1]), b1) \notin (b1 + 1)..(b2 - 1)

\* N >= 1 uniquely-named sections, each closed, none inside another, and no
\* end-marker line outside a section
WellFormed(ls) ==
    /\ Begins(ls) # {}
    /\ \A b \in Begins(ls) : CloseOf(ls, b) # 0
    /\ \A b1 \in Begins(ls) : \A b2 \in Begins(ls) :
          b1 # b2 => /\ BeginLineName(ls[b1]) # BeginLineName(ls[b2])
                     /\ ~(b1 < b2 /\ b2 < CloseOf(ls, b1))
    /\ \A e \in Ends(ls) : \E b \in Begins(ls) : b < e /\ e <= CloseOf(ls, b)

\* the names of the begin-marker lines, in input order
RECURSIVE BeginNamesInOrder(_)
BeginNamesInOrder(ls) ==
    IF ls = <<>> THEN <<>>
    ELSE (IF IsBeginLine(Head(ls)) THEN <<BeginLineName(Head(ls))>> ELSE <<>>)
         \o BeginNamesInOrder(Tail(ls))

TestDone == pc = "done" /\ args_test
ExtractDone == pc = "done" /\ ~args_test

\* C1: in validation mode, a well-formed input (N >= 1 uniquely-named
\* sections, none nested, no end-marker outside a section) makes
\* test_file_integrity return True, and what was written to stdout is exactly
\* the N section names, one per line, in the order of their begin-markers.
C1_WellFormedReportsAllNames ==
    (TestDone /\ WellFormed(lines)) =>
        /\ ret = "True"
        /\ exit_code = 0
        /\ stdout = [k \in 1..Len(BeginNamesInOrder(lines)) |->
                        BeginNamesInOrder(lines)[k] \o <<NL>>]

C1_Witness ==
    /\ TestDone
    /\ WellFormed(lines)
    /\ Cardinality(Begins(lines)) = 2
    /\ Len(stdout) = 2

\* C2: whenever a begin-marker occurs while an earlier section is still open,
\* the run ends with exit code 1, in validation mode without a return value
\* and in extraction mode with nothing written to stdout.
C2_NestingAbortsInBothModes ==
    (pc = "done" /\ HasNesting(lines)) =>
        /\ exit_code = 1
        /\ args_test => ret = "none"
        /\ ~args_test => stdout = <<>>

\* C3: validation of an input with an end-marker line and no begin-marker at
\* all fails and emits the report of the end-markers without opening, which
\* lists that line.
C3_OrphanOnlyInputIsReported ==
    (TestDone /\ Ends(lines) # {} /\ Begins(lines) = {}) =>
        /\ ret = "False"
        /\ exit_code = 1
        /\ \E k \in 1..Len(stderr) : stderr[k] = <<"Sections without opening:">>
        /\ \A e \in Ends(lines) :
              \E k \in 1..Len(stdout) : stdout[k] = lines[e]

\* C4: when validation returns False after at least one section was opened
\* and closed, the names of all sections found are on stdout.
C4_FoundNamesPrintedOnFailure ==
    (TestDone /\ ret = "False" /\ sections_found # <<>>) =>
        \A k \in 1..Len(sections_found) :
            \E j \in 1..Len(stdout) : stdout[j] = sections_found[k] \o <<NL>>

\* every end-marker line closes an open section of its own name
EveryEndMatches(ls) ==
    \A e \in Ends(ls) : \E b \in Begins(ls) :
        /\ b < e
        /\ BeginLineName(ls[b]) = EndLineName(ls[e])
        /\ CloseOf(ls, b) = e

\* the four conditions of success
IntegrityConditions(ls) ==
    /\ \E b \in Begins(ls) : CloseOf(ls, b) # 0
    /\ \A b \in Begins(ls) : CloseOf(ls, b) # 0
    /\ ~HasNesting(ls)
    /\ EveryEndMatches(ls)

\* C5: validation returns True (exit code 0) exactly when a section was
\* opened and closed, none is left open, none is nested and every end-marker
\* line meets an open section of its own name; otherwise the exit code is 1.
C5_SuccessIffConditions ==
    TestDone =>
        /\ (ret = "True" /\ exit_code = 0) <=> IntegrityConditions(lines)
        /\ ~IntegrityConditions(lines) => exit_code = 1

\* C6: in validation mode everything written to stdout is the name of a
\* section that was found.
C6_StdoutHoldsOnlyFoundNames ==
    args_test =>
        \A j \in 1..Len(stdout) :
            \E k \in 1..Len(sections_found) :
                stdout[j] = sections_found[k] \o <<NL>>

\* the block of a requested name: its lines from begin-marker through
\* end-marker, as one string (0-length when the name does not resolve)
BlockOf(ls, name) ==
    LET b == FirstBeginOf(ls, name)
        e == IF b = 0 THEN 0 ELSE FirstEndAfter(ls, name, b)
    IN  IF e = 0 THEN <<>> ELSE Join(SubSeq(ls, b, e))

\* the name resolves: get_section_content returns its lines
Resolves(ls, name) ==
    get_section_content(name, ls, SectionPatterns).raised = ""

\* blocks in request order, one "\n" between consecutive blocks
RECURSIVE BlocksWithBlankLines(_, _)
BlocksWithBlankLines(ls, req) ==
    IF Len(req) = 1 THEN BlockOf(ls, req[1])
    ELSE BlockOf(ls, req[1]) \o <<NL>> \o BlocksWithBlankLines(ls, Tail(req))

\* C7: when every requested name resolves, the run exits 0 and the one write
\* to stdout is the blocks in request order with exactly one "\n" between
\* consecutive blocks and none after the last; for a single name it is that
\* section's lines from begin-marker through end-marker.
C7_AssembledOutput ==
    (ExtractDone /\ \A k \in 1..Len(sections) : Resolves(lines, sections[k])) =>
        /\ exit_code = 0
        /\ stdout = <<BlocksWithBlankLines(lines, sections)>>
        /\ Len(sections) = 1 => stdout = <<BlockOf(lines, sections[1])>>

C7_Witness ==
    /\ ExtractDone
    /\ exit_code = 0
    /\ Len(sections) = 2
    /\ sections[1] # sections[2]
    /\ Len(stdout) = 1

\* every character of the line is whitespace
AllWhitespace(line) == \A j \in 1..Len(line) : line[j] \in Whitespace

\* the latest call located a section: begin-marker at line b, end-marker at e
CallLocated(b, e) ==
    /\ last_call # None
    /\ b = FirstBeginOf(lines, last_call[1].section)
    /\ b # 0
    /\ e = FirstEndAfter(lines, last_call[1].section, b)
    /\ e # 0

\* C8 as stated: SectionEmptyFound is raised exactly when the end-marker is
\* the line right after the begin-marker; with a line between them the
\* section's lines are returned.
C8_EmptyIffAdjacentMarkers ==
    \A b \in 1..Len(lines) : \A e \in 1..Len(lines) :
        CallLocated(b, e) =>
            /\ (last_call[1].result.raised = "SectionEmptyFound") <=> (e = b + 1)
            /\ e > b + 1 => last_call[1].result.raised = ""

\* C8 as amended: with marker lines that hold a non-whitespace character,
\* SectionEmptyFound is raised exactly when every line between the markers
\* is whitespace only (no line at all included); with a non-blank line
\* between them the section's lines are returned.
C8_EmptyIffBlankBody ==
    \A b \in 1..Len(lines) : \A e \in 1..Len(lines) :
        CallLocated(b, e) =>
            LET blank == \A k \in (b + 1)..(e - 1) : AllWhitespace(lines[k])
                r == last_call[1].result
            IN  /\ (r.raised = "SectionEmptyFound") <=> blank
                /\ ~blank => /\ r.raised = ""
                             /\ r.section_content = SubSeq(lines, b, e)

C8_Witness ==
    \E b \in 1..Len(lines) : \E e \in 1..Len(lines) :
        /\ CallLocated(b, e)
        /\ e > b + 1
        /\ \A k \in (b + 1)..(e - 1) : AllWhitespace(lines[k])
        /\ last_call[1].result.raised = "SectionEmptyFound"

\* C9: get_section_content raises SectionNotFound when no line equals the
\* begin-marker of the name; otherwise, with b the first such line, it
\* raises SectionEndlessFound when no later line equals the end-marker, and
\* otherwise collects exactly lines b..e, e being the first such line after
\* b.  A marker of a longer name with the same prefix is no match.
C9_LookupScan ==
    last_call # None =>
        LET name == last_call[1].section
            r == last_call[1].result
            b == FirstBeginOf(lines, name)
            e == FirstEndAfter(lines, name, b)
        IN  /\ b = 0 <=> r.raised = "SectionNotFound"
            /\ (b # 0 /\ e = 0) <=> r.raised = "SectionEndlessFound"
            /\ (b # 0 /\ e # 0) =>
                  /\ r.raised \in {"", "SectionEmptyFound"}
                  /\ r.begin = b - 1
                  /\ r.section_content = SubSeq(lines, b, e)
            /\ (\A k \in 1..Len(lines) :
                   IsBeginLine(lines[k]) => BeginLineName(lines[k]) # name)
                  => r.raised = "SectionNotFound"

C9_Witness ==
    /\ last_call # None
    /\ last_call[1].section = <<"a">>
    /\ last_call[1].result.raised = ""
    /\ last_call[1].result.begin > 0
    /\ lines[1] = BeginMarker(SectionPatterns, <<"a", "b">>)

\* C10: when validation returns True, for every name it reports the lookup
\* raises neither SectionNotFound nor SectionEndlessFound, and the range it
\* locates is the range of the first section of that name that the
\* validator opened and closed.
C10_ValidatorAndExtractorAgree ==
    (TestDone /\ ret = "True") =>
        /\ Len(closed_ranges) = Len(sections_found)
        /\ \A k \in 1..Len(closed_ranges) :
              LET name == sections_found[k]
                  r == get_section_content(name, lines, SectionPatterns)
              IN  /\ closed_ranges[k][1] = name
                  /\ r.raised \notin {"SectionNotFound", "SectionEndlessFound"}
                  /\ (\A j \in 1..(k - 1) : sections_found[j] # name) =>
                        /\ r.begin + 1 = closed_ranges[k][2]
                        /\ r.begin + Len(r.section_content) = closed_ranges[k][3]

C10_Witness ==
    /\ TestDone
    /\ ret = "True"
    /\ Len(closed_ranges) = 2
    /\ closed_ranges[1][1] = closed_ranges[2][1]

====
